---- MODULE Spec2Model ----
(***************************************************************************)
(* Model of generate.js: the resumable batch loop that produces the        *)
(* "Tribal Spidey" collection.  loadState() rebuilds the resume point, the *)
(* manifest and the rarity table from the metadata directory; generate()   *)
(* completes one identifier at a time, retrying a failed attempt in place, *)
(* and finally writes metadata.json and rarity.json.                       *)
(*                                                                         *)
(* Strings are TLA+ strings and the JavaScript string functions the code   *)
(* uses (endsWith, replace, parseInt, toLowerCase, template literals) are  *)
(* computed character by character.                                        *)
(***************************************************************************)
EXTENDS Integers, Sequences, FiniteSets, TLC

VARIABLES
    env,            \* process.env: FILEBASE_KEY, FILEBASE_BUCKET
    pc,             \* position of generate() in its code
    id,             \* loop variable of generate()
    startId,        \* value returned by loadState()
    loc,            \* locals of the current attempt (traits, imageCID, metadataCID)
    allMetadata,    \* the in-memory manifest
    rarityCounts,   \* the in-memory rarity table
    metadataDir,    \* METADATA_DIR: file name -> content
    imageDir,       \* IMAGE_DIR: file name -> content
    rootDir,        \* working directory: metadata.json, rarity.json
    bucket,         \* keys of the objects uploaded to the Filebase bucket
    dir0,           \* history: METADATA_DIR as it was when the process started
    loaded,         \* history: rarityCounts as loadState() left it
    failed,         \* history: identifiers that had a failed attempt in this run
    completedBy     \* history: identifier -> locals of the attempt that completed it

vars == <<env, pc, id, startId, loc, allMetadata, rarityCounts,
          metadataDir, imageDir, rootDir, bucket, dir0, loaded, failed, completedBy>>

----------------------------------------------------------------------------
(* Bounds *)

\* The code sets TOTAL_SUPPLY = 10000 (generate.js line 9); the model runs the
\* same loop with a small target.
TOTAL_SUPPLY == 2

\* How many traits of the backgrounds list the model keeps.
MaxTraits == 2

\* How many records of an earlier run a resumed run may find on disk.
MaxPrior == 2

\* Largest <n>.json file name, and largest number of files, in the
\* directories loadState() is run against on its own.
MaxFileId == 3
MaxFiles == 2

----------------------------------------------------------------------------
(* JavaScript values and string functions *)

\* parseInt's NaN: a number no file name of the model parses to.  Every
\* comparison with it is false.
NaN == 0 - 999999

Null == "<null>"
Undefined == "<undefined>"

\* JavaScript truthiness of a string-or-null value (`if (!imageCID)`, `cid ? a : b`).
Truthy(v) == v \notin {Null, Undefined, ""}

CharAt(s, i) == SubSeq(s, i, i)

\* String.prototype.endsWith
EndsWith(s, suffix) ==
    /\ Len(s) >= Len(suffix)
    /\ SubSeq(s, Len(s) - Len(suffix) + 1, Len(s)) = suffix

\* String.prototype.replace with a string pattern: the first occurrence only.
Replace(s, pattern, replacement) ==
    LET hits == {i \in 1..(Len(s) - Len(pattern) + 1) :
                    SubSeq(s, i, i + Len(pattern) - 1) = pattern}
    IN  IF hits = {} THEN s
        ELSE LET i == CHOOSE h \in hits : \A g \in hits : h <= g
             IN  SubSeq(s, 1, i - 1) \o replacement
                    \o SubSeq(s, i + Len(pattern), Len(s))

DigitChars == "0123456789"
DigitValues == [c \in {CharAt(DigitChars, i) : i \in 1..10} |->
                    (CHOOSE i \in 1..10 : CharAt(DigitChars, i) = c) - 1]
IsDigit(c) == c \in DOMAIN DigitValues
DigitVal(c) == DigitValues[c]

RECURSIVE DigitPrefix(_, _, _)
\* Value of the longest run of digits at the front of s; acc is the value so
\* far and seen tells whether a digit was read.
DigitPrefix(s, acc, seen) ==
    IF s # "" /\ IsDigit(Head(s))
    THEN DigitPrefix(Tail(s), 10 * acc + DigitVal(Head(s)), TRUE)
    ELSE IF seen THEN acc ELSE NaN

RECURSIVE TrimStart(_)
TrimStart(s) == IF s # "" /\ Head(s) = " " THEN TrimStart(Tail(s)) ELSE s

\* parseInt(string) with radix 10: leading blanks, an optional sign, then the
\* longest run of digits; NaN when there is none.  (No file name of the model
\* starts with "0x", the one case where parseInt switches to radix 16.)
ParseInt(s) ==
    LET t == TrimStart(s)
    IN  IF t # "" /\ Head(t) = "-"
        THEN LET v == DigitPrefix(Tail(t), 0, FALSE) IN IF v = NaN THEN NaN ELSE 0 - v
        ELSE IF t # "" /\ Head(t) = "+" THEN DigitPrefix(Tail(t), 0, FALSE)
        ELSE DigitPrefix(t, 0, FALSE)

\* JavaScript `a > b` on numbers: false when either side is NaN.
Gt(a, b) == a # NaN /\ b # NaN /\ a > b

UpperChars == "ABCDEFGHIJKLMNOPQRSTUVWXYZ"
LowerChars == "abcdefghijklmnopqrstuvwxyz"

LowerOf == [c \in {CharAt(UpperChars, i) : i \in 1..26} |->
                CharAt(LowerChars, CHOOSE i \in 1..26 : CharAt(UpperChars, i) = c)]
LowerChar(c) == IF c \in DOMAIN LowerOf THEN LowerOf[c] ELSE c

RECURSIVE ToLowerCase(_)
\* String.prototype.toLowerCase
ToLowerCase(s) == IF s = "" THEN "" ELSE LowerChar(Head(s)) \o ToLowerCase(Tail(s))

\* Object spread {...data, <extra fields>}: the extra fields win.
Spread(data, extra) ==
    [k \in (DOMAIN data) \cup (DOMAIN extra) |->
        IF k \in DOMAIN extra THEN extra[k] ELSE data[k]]

Min(a, b) == IF a <= b THEN a ELSE b

----------------------------------------------------------------------------
(* The trait catalog (module.exports of traits) *)

FullTraits ==
    [backgrounds |-> << "lava cave background", "ancient jungle background",
                        "ice age mountain background", "dark tribal cave background" >>,
     accessories |-> << "bone spear in hand", "stone axe weapon", "tribal mask",
                        "bone necklace", "skull helmet", "feather headpiece",
                        "wooden shield", "primitive drum", "stone guitar",
                        "lightning totem staff" >>,
     poses       |-> << "standing hero pose", "running attack pose",
                        "sitting ritual pose", "jumping action pose",
                        "crouching stealth pose" >>,
     colors      |-> << "red tribal suit", "black shadow suit", "blue ice suit",
                        "green jungle suit", "golden sun suit", "purple mystic suit",
                        "white bone suit", "orange lava suit", "silver lightning suit",
                        "brown earth suit" >>]

\* The catalog the model runs with: the first MaxTraits backgrounds and the
\* first trait of each other category.  The code handles the four categories
\* by the same statements, so the values of one category exercise everything
\* that depends on the value and all four exercise what depends on the
\* category.
traits ==
    [category \in DOMAIN FullTraits |->
        SubSeq(FullTraits[category], 1,
               IF category = "backgrounds"
               THEN Min(MaxTraits, Len(FullTraits[category]))
               ELSE 1)]

Range(s) == {s[i] : i \in 1..Len(s)}

\* rarityCounts after the initialisation at module load: every trait at 0.
InitialRarityCounts ==
    [category \in DOMAIN traits |-> [trait \in Range(traits[category]) |-> 0]]

\* getRandomTrait(category): Math.floor(Math.random() * options.length) is any
\* index of the list.
getRandomTrait(category) == Range(traits[category])

----------------------------------------------------------------------------
(* Metadata records and files *)

ImageFileName(n) == ToString(n) \o ".png"
MetadataFileName(n) == ToString(n) \o ".json"

\* Variant of Metadata: the image reference ignores the CID.
MetadataLocalImage(n, l) ==
    [name        |-> "Tribal Spidey #" \o ToString(n),
     description |-> "A collection of prehistoric tribal Spiderman chibis.",
     image       |-> "file://" \o ImageFileName(n),
     attributes  |-> << [trait_type |-> "Background", value |-> l.background],
                        [trait_type |-> "Accessory",  value |-> l.accessory],
                        [trait_type |-> "Pose",       value |-> l.pose],
                        [trait_type |-> "Color",      value |-> l.color] >>,
     compiler    |-> "Antigravity Engine"]

\* The metadata object built in step 4 of an attempt.
Metadata(n, l) ==
    [name        |-> "Tribal Spidey #" \o ToString(n),
     description |-> "A collection of prehistoric tribal Spiderman chibis.",
     image       |-> IF Truthy(l.imageCID)
                     THEN "ipfs://" \o l.imageCID
                     ELSE "file://" \o ImageFileName(n),
     attributes  |-> << [trait_type |-> "Background", value |-> l.background],
                        [trait_type |-> "Accessory",  value |-> l.accessory],
                        [trait_type |-> "Pose",       value |-> l.pose],
                        [trait_type |-> "Color",      value |-> l.color] >>,
     compiler    |-> "Antigravity Engine"]

\* A file of METADATA_DIR: content that fs.readJson returns, or content on
\* which it throws (unreadable file, invalid JSON).
JsonFile(data) == [readable |-> TRUE, data |-> data]
BrokenFile == [readable |-> FALSE]

NoLocals ==
    [background |-> "", accessory |-> "", pose |-> "", color |-> "",
     imageCID |-> "", metadataCID |-> ""]

\* The locals of an attempt that sampled the given traits.
Sampled(background, accessory, pose, color) ==
    [NoLocals EXCEPT !.background = background, !.accessory = accessory,
                     !.pose = pose, !.color = color]

\* Every choice of traits an attempt can sample.
AllSamples ==
    {Sampled(b, a, p, c) : b \in getRandomTrait("backgrounds"),
                           a \in getRandomTrait("accessories"),
                           p \in getRandomTrait("poses"),
                           c \in getRandomTrait("colors")}

\* What getCID can return: a CID, or no CID.  The code gets undefined when the
\* object carries no cid entry and null when the request failed; it only
\* tests the result for truthiness, and the model writes null for both.
CIDs == {"QmCID"}
CIDResults == CIDs \cup {Null}

----------------------------------------------------------------------------
(* loadState() *)

\* The body of the for loop of loadState() for one file; st holds maxId,
\* allMetadata and rarityCounts.  An exception leaves what was done before it.
BumpRarity(rc, attr) ==
    LET category == ToLowerCase(attr.trait_type) \o "s"
    IN  IF /\ category \in DOMAIN rc
           /\ "value" \in DOMAIN attr
           /\ attr.value \in DOMAIN rc[category]
        THEN [rc EXCEPT ![category][attr.value] = @ + 1]
        ELSE rc

RECURSIVE ReplayAttributesStrict(_, _)
\* Variant of ReplayAttributes: an attribute that finds no counter ends the
\* replay of the record.
ReplayAttributesStrict(rc, attributes) ==
    IF attributes = <<>> THEN rc
    ELSE IF "trait_type" \notin DOMAIN Head(attributes) THEN rc
    ELSE IF BumpRarity(rc, Head(attributes)) = rc THEN rc
    ELSE ReplayAttributesStrict(BumpRarity(rc, Head(attributes)), Tail(attributes))

RECURSIVE ReplayAttributes(_, _)
\* data.attributes.forEach(...): stops at the first attribute whose
\* trait_type is missing (TypeError), keeping the earlier increments.
ReplayAttributes(rc, attributes) ==
    IF attributes = <<>> THEN rc
    ELSE IF "trait_type" \notin DOMAIN Head(attributes) THEN rc
    ELSE ReplayAttributes(BumpRarity(rc, Head(attributes)), Tail(attributes))

\* Variant of LoadFile: `maxId = id` without the comparison.
LoadFileLastWins(st, file, dir) ==
    IF ~dir[file].readable THEN st
    ELSE LET data == dir[file].data
             n == ParseInt(Replace(file, ".json", ""))
             st1 == [st EXCEPT
                        !.maxId = n,
                        !.allMetadata =
                            Append(st.allMetadata,
                                   Spread(data, [tokenId |-> n, metadataCID |-> ""]))]
         IN  IF "attributes" \notin DOMAIN data THEN st1
             ELSE [st1 EXCEPT
                      !.rarityCounts = ReplayAttributes(st.rarityCounts, data.attributes)]

\* Variant of LoadFile: the maximum is updated before the file is read.
LoadFileNameFirst(st, file, dir) ==
    LET n == ParseInt(Replace(file, ".json", ""))
        st0 == [st EXCEPT !.maxId = IF Gt(n, st.maxId) THEN n ELSE st.maxId]
    IN  IF ~dir[file].readable THEN st0
        ELSE LET data == dir[file].data
                 st1 == [st0 EXCEPT
                            !.allMetadata =
                                Append(st.allMetadata,
                                       Spread(data, [tokenId |-> n, metadataCID |-> ""]))]
             IN  IF "attributes" \notin DOMAIN data THEN st1
                 ELSE [st1 EXCEPT
                          !.rarityCounts =
                              ReplayAttributes(st.rarityCounts, data.attributes)]

LoadFile(st, file, dir) ==
    IF ~dir[file].readable THEN st
    ELSE LET data == dir[file].data
             n == ParseInt(Replace(file, ".json", ""))
             st1 == [st EXCEPT
                        !.maxId = IF Gt(n, st.maxId) THEN n ELSE st.maxId,
                        !.allMetadata =
                            Append(st.allMetadata,
                                   Spread(data, [tokenId |-> n, metadataCID |-> ""]))]
         IN  IF "attributes" \notin DOMAIN data THEN st1
             ELSE [st1 EXCEPT
                      !.rarityCounts = ReplayAttributes(st.rarityCounts, data.attributes)]

RECURSIVE LoadFiles(_, _, _)
LoadFiles(st, listing, dir) ==
    IF listing = <<>> THEN st
    ELSE LoadFiles(LoadFile(st, Head(listing), dir), Tail(listing), dir)

\* files.filter(f => f.endsWith('.json'))
JsonFiles(dir) == {f \in DOMAIN dir : EndsWith(f, ".json")}

\* fs.readdir returns the names in an order the code does not control.
Listings(S) ==
    {s \in [1..Cardinality(S) -> S] : \A i, j \in 1..Cardinality(S) : s[i] = s[j] => i = j}

\* Variant of LoadState: the loop starts at the smallest identifier that has
\* no parsed file.
LoadStateFirstGap ==
    /\ pc = "load"
    /\ \E listing \in Listings(JsonFiles(metadataDir)) :
          \E st \in {LoadFiles([maxId |-> 0, allMetadata |-> allMetadata,
                                rarityCounts |-> rarityCounts],
                               listing, metadataDir)} :
              LET ids == {ParseInt(Replace(f, ".json", "")) :
                             f \in {g \in JsonFiles(metadataDir) : metadataDir[g].readable}}
                  gap == CHOOSE n \in 1..(Cardinality(ids) + 1) :
                             n \notin ids /\ \A m \in 1..(n - 1) : m \in ids
              IN  /\ allMetadata' = st.allMetadata
                  /\ rarityCounts' = st.rarityCounts
                  /\ loaded' = st.rarityCounts
                  /\ startId' = gap
                  /\ id' = gap
    /\ pc' = "loop"
    /\ UNCHANGED <<env, loc, metadataDir, imageDir, rootDir, bucket, dir0, failed,
                   completedBy>>

\* Variant of LoadState: the loop starts at maxId instead of maxId + 1.
LoadStateFromMax ==
    /\ pc = "load"
    /\ \E listing \in Listings(JsonFiles(metadataDir)) :
          \E st \in {LoadFiles([maxId |-> 0, allMetadata |-> allMetadata,
                                rarityCounts |-> rarityCounts],
                               listing, metadataDir)} :
              /\ allMetadata' = st.allMetadata
              /\ rarityCounts' = st.rarityCounts
              /\ loaded' = st.rarityCounts
              /\ startId' = IF st.maxId = 0 THEN 1 ELSE st.maxId
              /\ id' = IF st.maxId = 0 THEN 1 ELSE st.maxId
    /\ pc' = "loop"
    /\ UNCHANGED <<env, loc, metadataDir, imageDir, rootDir, bucket, dir0, failed,
                   completedBy>>

\* generate() lines 132-136: run loadState() and start the loop at its result.
LoadState ==
    /\ pc = "load"
    /\ \E listing \in Listings(JsonFiles(metadataDir)) :
          \E st \in {LoadFiles([maxId |-> 0, allMetadata |-> allMetadata,
                                rarityCounts |-> rarityCounts],
                               listing, metadataDir)} :
              /\ allMetadata' = st.allMetadata
              /\ rarityCounts' = st.rarityCounts
              /\ loaded' = st.rarityCounts
              /\ startId' = st.maxId + 1
              /\ id' = st.maxId + 1
    /\ pc' = "loop"
    /\ UNCHANGED <<env, loc, metadataDir, imageDir, rootDir, bucket, dir0, failed,
                   completedBy>>

----------------------------------------------------------------------------
(* generate(): the loop *)

\* `process.env.FILEBASE_KEY && process.env.FILEBASE_BUCKET`
CredentialsConfigured == Truthy(env.FILEBASE_KEY) /\ Truthy(env.FILEBASE_BUCKET)

\* The prompt of step 2, which determines the image the service returns.
Prompt(l) ==
    "chibi spiderman prehistoric stone age tribal style, " \o l.background
        \o ", " \o l.accessory \o ", " \o l.pose \o ", " \o l.color

\* Writing a file creates it or replaces its content.
WriteFileTo(dir, file, content) ==
    [f \in (DOMAIN dir) \cup {file} |-> IF f = file THEN content ELSE dir[f]]

EmptyDir == [f \in {} |-> BrokenFile]

\* Variant of ThrowingSteps: getCID lets its error through.
ThrowingStepsWithLookup ==
    {"fetch", "writeImage", "uploadImage", "getImageCID", "writeMetadata",
     "uploadMetadata", "getMetadataCID"}

\* The awaited calls of an attempt that can throw into the catch block.
ThrowingSteps == {"fetch", "writeImage", "uploadImage", "writeMetadata", "uploadMetadata"}

\* Variant of SelectTraits: the loop condition is `id <= TOTAL_SUPPLY + 1`.
SelectTraitsPastEnd ==
    /\ pc = "loop"
    /\ id <= TOTAL_SUPPLY + 1
    /\ \E background \in getRandomTrait("backgrounds"),
          accessory \in getRandomTrait("accessories"),
          pose \in getRandomTrait("poses"),
          color \in getRandomTrait("colors") :
            loc' = Sampled(background, accessory, pose, color)
    /\ pc' = "fetch"
    /\ UNCHANGED <<env, id, startId, allMetadata, rarityCounts, metadataDir, imageDir,
                   rootDir, bucket, dir0, loaded, failed, completedBy>>

\* Lines 137-150: the loop condition holds; sample one trait per category.
SelectTraits ==
    /\ pc = "loop"
    /\ id <= TOTAL_SUPPLY
    /\ \E background \in getRandomTrait("backgrounds"),
          accessory \in getRandomTrait("accessories"),
          pose \in getRandomTrait("poses"),
          color \in getRandomTrait("colors") :
            loc' = Sampled(background, accessory, pose, color)
    /\ pc' = "fetch"
    /\ UNCHANGED <<env, id, startId, allMetadata, rarityCounts, metadataDir, imageDir,
                   rootDir, bucket, dir0, loaded, failed, completedBy>>

\* Lines 152-155: axios.get returned the image.
FetchImage ==
    /\ pc = "fetch"
    /\ pc' = "writeImage"
    /\ UNCHANGED <<env, id, startId, loc, allMetadata, rarityCounts, metadataDir,
                   imageDir, rootDir, bucket, dir0, loaded, failed, completedBy>>

\* Lines 157-163: the image is written to <id>.png.
WriteImage ==
    /\ pc = "writeImage"
    /\ imageDir' = WriteFileTo(imageDir, ImageFileName(id), Prompt(loc))
    /\ pc' = IF CredentialsConfigured THEN "uploadImage" ELSE "writeMetadata"
    /\ UNCHANGED <<env, id, startId, loc, allMetadata, rarityCounts, metadataDir,
                   rootDir, bucket, dir0, loaded, failed, completedBy>>

\* Line 164: uploadBuffer of the image returned.
UploadImage ==
    /\ pc = "uploadImage"
    /\ pc' = "getImageCID"
    /\ bucket' = bucket \cup {ImageFileName(id)}
    /\ UNCHANGED <<env, id, startId, loc, allMetadata, rarityCounts, metadataDir,
                   imageDir, rootDir, dir0, loaded, failed, completedBy>>

\* Variant of GetImageCID: a missing CID is thrown into the catch block.
GetImageCIDThrowing ==
    /\ pc = "getImageCID"
    /\ \E cid \in CIDResults :
          IF Truthy(cid)
          THEN /\ loc' = [loc EXCEPT !.imageCID = cid]
               /\ pc' = "writeMetadata"
               /\ failed' = failed
          ELSE /\ loc' = NoLocals
               /\ pc' = "loop"
               /\ failed' = failed \cup {id}
    /\ UNCHANGED <<env, id, startId, allMetadata, rarityCounts, metadataDir, imageDir,
                   rootDir, bucket, dir0, loaded, completedBy>>

\* Lines 165-169: getCID never throws; a missing CID only logs a warning.
GetImageCID ==
    /\ pc = "getImageCID"
    /\ \E cid \in CIDResults : loc' = [loc EXCEPT !.imageCID = cid]
    /\ pc' = "writeMetadata"
    /\ UNCHANGED <<env, id, startId, allMetadata, rarityCounts, metadataDir, imageDir,
                   rootDir, bucket, dir0, loaded, failed, completedBy>>

\* Variant of WriteMetadata: an existing <id>.json is kept.
WriteMetadataIfAbsent ==
    /\ pc = "writeMetadata"
    /\ metadataDir' = IF MetadataFileName(id) \in DOMAIN metadataDir
                      THEN metadataDir
                      ELSE WriteFileTo(metadataDir, MetadataFileName(id),
                                       JsonFile(Metadata(id, loc)))
    /\ pc' = IF CredentialsConfigured THEN "uploadMetadata" ELSE "commit"
    /\ UNCHANGED <<env, id, startId, loc, allMetadata, rarityCounts, imageDir, rootDir,
                   bucket, dir0, loaded, failed, completedBy>>

\* Lines 173-191: the metadata object is built and written to <id>.json.
WriteMetadata ==
    /\ pc = "writeMetadata"
    /\ metadataDir' = WriteFileTo(metadataDir, MetadataFileName(id),
                                  JsonFile(Metadata(id, loc)))
    /\ pc' = IF CredentialsConfigured THEN "uploadMetadata" ELSE "commit"
    /\ UNCHANGED <<env, id, startId, loc, allMetadata, rarityCounts, imageDir, rootDir,
                   bucket, dir0, loaded, failed, completedBy>>

\* Lines 192-193: uploadBuffer of the metadata returned.
UploadMetadata ==
    /\ pc = "uploadMetadata"
    /\ pc' = "getMetadataCID"
    /\ bucket' = bucket \cup {MetadataFileName(id)}
    /\ UNCHANGED <<env, id, startId, loc, allMetadata, rarityCounts, metadataDir,
                   imageDir, rootDir, dir0, loaded, failed, completedBy>>

\* Line 194.
GetMetadataCID ==
    /\ pc = "getMetadataCID"
    /\ \E cid \in CIDResults : loc' = [loc EXCEPT !.metadataCID = cid]
    /\ pc' = "commit"
    /\ UNCHANGED <<env, id, startId, allMetadata, rarityCounts, metadataDir, imageDir,
                   rootDir, bucket, dir0, loaded, failed, completedBy>>

\* Variant of Commit: the record is put at the front of the manifest.
CommitPrepending ==
    /\ pc = "commit"
    /\ allMetadata' = << Spread(Metadata(id, loc),
                                [tokenId |-> id, metadataCID |-> loc.metadataCID]) >>
                         \o allMetadata
    /\ rarityCounts' = [rarityCounts EXCEPT
                            !.backgrounds[loc.background] = @ + 1,
                            !.accessories[loc.accessory] = @ + 1,
                            !.poses[loc.pose] = @ + 1,
                            !.colors[loc.color] = @ + 1]
    /\ id' = id + 1
    /\ completedBy' = WriteFileTo(completedBy, id, loc)
    /\ loc' = NoLocals
    /\ pc' = "loop"
    /\ UNCHANGED <<env, startId, metadataDir, imageDir, rootDir, bucket, dir0, loaded,
                   failed>>

\* Lines 198-216: the record joins the manifest, the four sampled traits are
\* counted and the loop moves to the next identifier.
Commit ==
    /\ pc = "commit"
    /\ allMetadata' = Append(allMetadata,
                             Spread(Metadata(id, loc),
                                    [tokenId |-> id, metadataCID |-> loc.metadataCID]))
    /\ rarityCounts' = [rarityCounts EXCEPT
                            !.backgrounds[loc.background] = @ + 1,
                            !.accessories[loc.accessory] = @ + 1,
                            !.poses[loc.pose] = @ + 1,
                            !.colors[loc.color] = @ + 1]
    /\ id' = id + 1
    /\ completedBy' = WriteFileTo(completedBy, id, loc)
    /\ loc' = NoLocals
    /\ pc' = "loop"
    /\ UNCHANGED <<env, startId, metadataDir, imageDir, rootDir, bucket, dir0, loaded,
                   failed>>

\* Variant of Catch: the failure path also runs `id++`.
CatchAdvancing ==
    /\ pc \in ThrowingSteps
    /\ failed' = failed \cup {id}
    /\ loc' = NoLocals
    /\ id' = id + 1
    /\ pc' = "loop"
    /\ UNCHANGED <<env, startId, allMetadata, rarityCounts, metadataDir, imageDir,
                   rootDir, bucket, dir0, loaded, completedBy>>

\* Variant of Catch: the second failure of an identifier ends the process.
CatchGivingUp ==
    /\ pc \in ThrowingSteps
    /\ failed' = failed \cup {id}
    /\ loc' = NoLocals
    /\ pc' = IF id \in failed THEN "crashed" ELSE "loop"
    /\ UNCHANGED <<env, id, startId, allMetadata, rarityCounts, metadataDir, imageDir,
                   rootDir, bucket, dir0, loaded, completedBy>>

\* Lines 218-222: an awaited call threw; log, wait and go round the loop again.
Catch ==
    /\ pc \in ThrowingSteps
    /\ failed' = failed \cup {id}
    /\ loc' = NoLocals
    /\ pc' = "loop"
    /\ UNCHANGED <<env, id, startId, allMetadata, rarityCounts, metadataDir, imageDir,
                   rootDir, bucket, dir0, loaded, completedBy>>

\* Variant of ExitLoop: the loop condition is `id < TOTAL_SUPPLY`.
ExitLoopEarly ==
    /\ pc = "loop"
    /\ id >= TOTAL_SUPPLY
    /\ pc' = "report"
    /\ UNCHANGED <<env, id, startId, loc, allMetadata, rarityCounts, metadataDir,
                   imageDir, rootDir, bucket, dir0, loaded, failed, completedBy>>

\* Line 137: the loop condition fails.
ExitLoop ==
    /\ pc = "loop"
    /\ id > TOTAL_SUPPLY
    /\ pc' = "report"
    /\ UNCHANGED <<env, id, startId, loc, allMetadata, rarityCounts, metadataDir,
                   imageDir, rootDir, bucket, dir0, loaded, failed, completedBy>>

\* Lines 226-227.
WriteManifest ==
    /\ pc = "report"
    /\ rootDir' = WriteFileTo(rootDir, "metadata.json", allMetadata)
    /\ pc' = "rarityReport"
    /\ UNCHANGED <<env, id, startId, loc, allMetadata, rarityCounts, metadataDir,
                   imageDir, bucket, dir0, loaded, failed, completedBy>>

\* Lines 229-235.
WriteRarityReport ==
    /\ pc = "rarityReport"
    /\ rootDir' = WriteFileTo(rootDir, "rarity.json",
                              [totalSupply |-> TOTAL_SUPPLY, traits |-> rarityCounts])
    /\ pc' = "done"
    /\ UNCHANGED <<env, id, startId, loc, allMetadata, rarityCounts, metadataDir,
                   imageDir, bucket, dir0, loaded, failed, completedBy>>

\* A report write throws outside the try block: the promise of generate()
\* rejects and the process ends.
ReportFails ==
    /\ pc \in {"report", "rarityReport"}
    /\ pc' = "crashed"
    /\ UNCHANGED <<env, id, startId, loc, allMetadata, rarityCounts, metadataDir,
                   imageDir, rootDir, bucket, dir0, loaded, failed, completedBy>>

----------------------------------------------------------------------------
(* Initial states *)

EnvValues ==
    [FILEBASE_KEY : {Undefined, "key"}, FILEBASE_BUCKET : {Undefined, "bucket"}]

\* The locals with which an earlier run of this program may have completed an
\* identifier: any sampled traits, with or without an image CID.
PriorLocals ==
    {[l EXCEPT !.imageCID = cid] : l \in AllSamples, cid \in {""} \cup CIDs}

\* The state a process starts in, given its environment and the two
\* directories (lines 26-40).
Start(e, mdir, idir, keys) ==
    /\ env = e
    /\ pc = "load"
    /\ id = 0
    /\ startId = 0
    /\ loc = NoLocals
    /\ allMetadata = <<>>
    /\ rarityCounts = InitialRarityCounts
    /\ metadataDir = mdir
    /\ imageDir = idir
    /\ rootDir = EmptyDir
    /\ bucket = keys
    /\ dir0 = mdir
    /\ loaded = InitialRarityCounts
    /\ failed = {}
    /\ completedBy = EmptyDir

\* A fresh run, or a run resumed on the records 1..K that an earlier run of
\* this program completed; the records that carry a CID were uploaded.
Init ==
    \E e \in EnvValues, K \in 0..MaxPrior :
        \E prior \in [1..K -> PriorLocals] :
            Start(e,
                  [f \in {MetadataFileName(i) : i \in 1..K} |->
                      LET i == ParseInt(Replace(f, ".json", ""))
                      IN  JsonFile(Metadata(i, prior[i]))],
                  [f \in {ImageFileName(i) : i \in 1..K} |->
                      LET i == ParseInt(Replace(f, ".png", ""))
                      IN  Prompt(prior[i])],
                  UNION {{ImageFileName(i), MetadataFileName(i)} :
                            i \in {j \in 1..K : Truthy(prior[j].imageCID)}})

Next ==
    \/ LoadState
    \/ SelectTraits
    \/ FetchImage
    \/ WriteImage
    \/ UploadImage
    \/ GetImageCID
    \/ WriteMetadata
    \/ UploadMetadata
    \/ GetMetadataCID
    \/ Commit
    \/ Catch
    \/ ExitLoop
    \/ WriteManifest
    \/ WriteRarityReport
    \/ ReportFails

Spec == Init /\ [][Next]_vars

\* The steps of the loop of generate() that cannot throw.
NonThrowingStep ==
    \/ SelectTraits
    \/ GetImageCID
    \/ GetMetadataCID
    \/ Commit
    \/ ExitLoop

\* The run under the assumption of C12: a step of an attempt that can throw
\* does not throw every time it is reached, and the process is not stopped
\* while it is in the loop.
\* The liveness of the loop is checked on the runs that have at most two
\* identifiers left to generate (every run when TOTAL_SUPPLY is 2) and whose
\* earlier records, which the loop never reads, all carry the first trait of
\* each category and no CID.
InitFair ==
    /\ Init
    /\ Cardinality(DOMAIN metadataDir) >= TOTAL_SUPPLY - 2
    /\ \A f \in DOMAIN metadataDir :
          metadataDir[f] = JsonFile(Metadata(ParseInt(f),
                                             Sampled(traits.backgrounds[1],
                                                     traits.accessories[1],
                                                     traits.poses[1],
                                                     traits.colors[1])))

SpecFair ==
    /\ InitFair
    /\ [][Next]_vars
    /\ WF_vars(NonThrowingStep)
    /\ SF_vars(FetchImage)
    /\ SF_vars(WriteImage)
    /\ SF_vars(UploadImage)
    /\ SF_vars(WriteMetadata)
    /\ SF_vars(UploadMetadata)

----------------------------------------------------------------------------
(* External termination and restart *)

\* The process is terminated wherever it stands and started again: the
\* directories and the bucket stay, the module state is initialised anew
\* (lines 26-40) and generate() is called (line 238).
Restart ==
    /\ pc # "load"
    /\ pc' = "load"
    /\ id' = 0
    /\ startId' = 0
    /\ loc' = NoLocals
    /\ allMetadata' = <<>>
    /\ rarityCounts' = InitialRarityCounts
    /\ dir0' = metadataDir
    /\ loaded' = InitialRarityCounts
    /\ failed' = {}
    /\ completedBy' = EmptyDir
    /\ UNCHANGED <<env, metadataDir, imageDir, rootDir, bucket>>

\* The first run starts on empty directories.
InitRestart == \E e \in EnvValues : Start(e, EmptyDir, EmptyDir, {})

NextRestart == Next \/ Restart

SpecRestart == InitRestart /\ [][NextRestart]_vars

----------------------------------------------------------------------------
(* loadState() on its own, against arbitrary directories *)

LoadNames == {MetadataFileName(i) : i \in 1..MaxFileId} \cup {"x.json", "1.png"}

\* The identifier a file of these directories is about.
NameId(file) ==
    LET n == ParseInt(file) IN IF n = NaN THEN 1 ELSE n

\* What a file may hold: a record this program wrote, content that does not
\* parse, a record without attributes, a record with an attribute that has
\* no trait_type in the middle of the list, and a record written under
\* another catalog.
LoadContents(n) ==
    {JsonFile(Metadata(n, l)) : l \in AllSamples}
    \cup {BrokenFile,
          JsonFile([name |-> "Tribal Spidey #" \o ToString(n)]),
          JsonFile([name |-> "Tribal Spidey #" \o ToString(n),
                    attributes |->
                        << [trait_type |-> "Background", value |-> traits.backgrounds[1]],
                           [value |-> traits.colors[1]],
                           [trait_type |-> "Pose", value |-> traits.poses[1]] >>]),
          JsonFile([name |-> "Tribal Spidey #" \o ToString(n),
                    attributes |->
                        << [trait_type |-> "Background", value |-> "retired background"],
                           [trait_type |-> "Mood", value |-> "calm"],
                           [trait_type |-> "Pose", value |-> traits.poses[1]] >>])}

\* LoadContents(n) for every identifier a name of LoadNames is about.
ContentsOf == [n \in 1..MaxFileId |-> LoadContents(n)]

LoadDirs ==
    UNION {{dir \in [S -> UNION {ContentsOf[n] : n \in 1..MaxFileId}] :
                \A f \in S : dir[f] \in ContentsOf[NameId(f)]} :
           S \in {T \in SUBSET LoadNames : Cardinality(T) <= MaxFiles}}

InitLoad ==
    \E mdir \in LoadDirs :
        Start([FILEBASE_KEY |-> Undefined, FILEBASE_BUCKET |-> Undefined],
              mdir, EmptyDir, {})

NextLoad == LoadState

SpecLoad == InitLoad /\ [][NextLoad]_vars

----------------------------------------------------------------------------
(* Vocabulary of the properties *)

RECURSIVE SumOver(_, _)
\* The sum of f over the set S of its arguments.
SumOver(f, S) ==
    IF S = {} THEN 0
    ELSE LET x == CHOOSE y \in S : TRUE IN f[x] + SumOver(f, S \ {x})

MaxOf(S) == CHOOSE m \in S : \A n \in S : n <= m

\* The run started on an empty metadata directory.
FreshRun == DOMAIN dir0 = {}

\* The trait_type generate() writes for each category (lines 177-182), and
\* the local that holds the sampled trait (lines 140-143, 205-208).
DisplayName ==
    [backgrounds |-> "Background", accessories |-> "Accessory",
     poses |-> "Pose", colors |-> "Color"]
TraitLocal ==
    [backgrounds |-> "background", accessories |-> "accessory",
     poses |-> "pose", colors |-> "color"]

\* The values a record's attribute list gives for a category.
AttributeValues(data, category) ==
    {data.attributes[k].value :
        k \in {j \in 1..Len(data.attributes) :
                  data.attributes[j].trait_type = DisplayName[category]}}

\* Identifiers the loop has completed in this run, and the positions of the
\* manifest that carry a given identifier.
Completed == DOMAIN completedBy
EntriesOf(i) == {k \in 1..Len(allMetadata) : allMetadata[k].tokenId = i}

\* The file identifier of a name of the metadata or image directory.
FileId(file) == ParseInt(file)

AfterLoop == pc \in {"report", "rarityReport", "done", "crashed"}

----------------------------------------------------------------------------
(* C1 *)

\* C1: in a run started on an empty metadata directory, whatever attempts
\* failed, the tokenIds of allMetadata and the <id>.json files of the completed
\* identifiers are exactly 1..k, k = id - 1, without gap or duplicate, no file
\* exists beyond the identifier in progress, and once the loop has exited
\* k = TOTAL_SUPPLY.
C1_DenseIdentifiers ==
    (FreshRun /\ pc # "load") =>
        /\ Len(allMetadata) = id - 1
        /\ {allMetadata[k].tokenId : k \in 1..Len(allMetadata)} = 1..(id - 1)
        /\ \A i \in 1..(id - 1) : Cardinality(EntriesOf(i)) = 1
        /\ \A i \in 1..(id - 1) : MetadataFileName(i) \in DOMAIN metadataDir
        /\ JsonFiles(metadataDir) \subseteq {MetadataFileName(i) : i \in 1..id}
        /\ AfterLoop =>
              /\ id - 1 = TOTAL_SUPPLY
              /\ JsonFiles(metadataDir) = {MetadataFileName(i) : i \in 1..TOTAL_SUPPLY}

\* A fresh run that finished although every identifier had a failed attempt.
C1_Witness ==
    /\ FreshRun
    /\ pc = "done"
    /\ failed = 1..TOTAL_SUPPLY
    /\ Len(allMetadata) = TOTAL_SUPPLY

----------------------------------------------------------------------------
(* C2 *)

\* The directory holds exactly the records 1.json..K.json, each of which
\* loads without error, besides files that are not .json.
RecordsOneTo(dir, K) ==
    /\ JsonFiles(dir) = {MetadataFileName(i) : i \in 1..K}
    /\ \A f \in JsonFiles(dir) :
          /\ dir[f].readable
          /\ "attributes" \in DOMAIN dir[f].data
          /\ \A k \in 1..Len(dir[f].data.attributes) :
                "trait_type" \in DOMAIN dir[f].data.attributes[k]

\* C2: loadState() returns K+1 on a directory holding the well-formed records
\* 1.json..K.json, in whatever order the directory is listed, and returns 1
\* with every rarity count at 0 on a directory without .json file.
C2_ResumePoint ==
    pc # "load" =>
        /\ \A K \in 0..MaxFileId : RecordsOneTo(dir0, K) => startId = K + 1
        /\ JsonFiles(dir0) = {} =>
              /\ startId = 1
              /\ \A c \in DOMAIN rarityCounts :
                    \A t \in DOMAIN rarityCounts[c] : rarityCounts[c][t] = 0

\* Records 1 and 2 were listed as 2.json, 1.json and the resume point is 3.
C2_Witness ==
    /\ pc = "loop"
    /\ RecordsOneTo(dir0, 2)
    /\ Len(allMetadata) = 2
    /\ allMetadata[1].tokenId = 2
    /\ startId = 3

----------------------------------------------------------------------------
(* C3 *)

\* C3: in every state after loadState(), for each of the four categories the
\* counts of rarityCounts[category] sum to the number of records processed so
\* far (replayed by loadState() or completed by the loop).
C3_RaritySums ==
    pc # "load" =>
        \A c \in DOMAIN rarityCounts :
            SumOver(rarityCounts[c], DOMAIN rarityCounts[c]) = Len(allMetadata)

----------------------------------------------------------------------------
(* C4 *)

\* C4: a step that is not the completion of an attempt changes neither id nor
\* allMetadata nor rarityCounts, and a throwing step leads back to the top of
\* the loop with the same id; id changes only in the completing step, by
\* exactly 1, and that step is taken only when the image and the metadata of
\* this attempt's traits are on disk.
C4_FailedAttemptChangesNothing ==
    [][/\ pc \notin {"load", "commit"} =>
            /\ id' = id
            /\ allMetadata' = allMetadata
            /\ rarityCounts' = rarityCounts
       /\ (pc \in ThrowingSteps /\ pc' = "loop") => (id' = id /\ id' <= TOTAL_SUPPLY)
       /\ pc = "commit" =>
            /\ id' = id + 1
            /\ Len(allMetadata') = Len(allMetadata) + 1
            /\ imageDir[ImageFileName(id)] = Prompt(loc)
            /\ metadataDir[MetadataFileName(id)] = JsonFile(Metadata(id, loc))
      ]_vars

\* The metadata upload of the last identifier failed: the loop is back at its
\* top with the same identifier, whose files are on disk.
C4_Witness ==
    /\ pc = "loop"
    /\ id = TOTAL_SUPPLY
    /\ id \in failed
    /\ MetadataFileName(id) \in DOMAIN metadataDir
    /\ Len(allMetadata) = id - 1

----------------------------------------------------------------------------
(* C5 *)

\* C5: for an identifier that failed and was then completed there is one
\* <id>.json, one <id>.png and one allMetadata entry, and the attributes on
\* disk, the attributes of the entry, the image and the rarity increments are
\* those of the traits the completing attempt sampled.
C5_OnlySuccessfulAttemptRecorded ==
    /\ \A i \in failed \cap Completed :
          /\ {f \in DOMAIN metadataDir : FileId(f) = i} = {MetadataFileName(i)}
          /\ {f \in DOMAIN imageDir : FileId(f) = i} = {ImageFileName(i)}
          /\ Cardinality(EntriesOf(i)) = 1
          /\ metadataDir[MetadataFileName(i)].data.attributes
                = Metadata(i, completedBy[i]).attributes
          /\ \A k \in EntriesOf(i) :
                allMetadata[k].attributes = Metadata(i, completedBy[i]).attributes
          /\ imageDir[ImageFileName(i)] = Prompt(completedBy[i])
    /\ pc # "load" =>
          \A c \in DOMAIN traits : \A t \in Range(traits[c]) :
              rarityCounts[c][t] - loaded[c][t]
                = Cardinality({i \in Completed : completedBy[i][TraitLocal[c]] = t})

\* The first identifier failed after its metadata was written and every later
\* one failed too; the run finished.
C5_Witness ==
    /\ pc = "done"
    /\ 1 \in failed \cap Completed
    /\ CredentialsConfigured
    /\ Cardinality(failed) > 1

----------------------------------------------------------------------------
(* C6 *)

\* C6: every <id>.json this run wrote has image file://<id>.png when the
\* credentials are absent, and ipfs://<CID> when they are present and the
\* image CID lookup of the writing attempt returned a non-empty CID.
C6_ImageScheme ==
    /\ \A i \in Completed :
          LET image == metadataDir[MetadataFileName(i)].data.image
          IN  /\ ~CredentialsConfigured => image = "file://" \o ToString(i) \o ".png"
              /\ (CredentialsConfigured /\ completedBy[i].imageCID \in CIDs)
                    => image = "ipfs://" \o completedBy[i].imageCID
    /\ pc \in {"uploadMetadata", "getMetadataCID", "commit"} =>
          LET image == metadataDir[MetadataFileName(id)].data.image
          IN  /\ ~CredentialsConfigured => image = "file://" \o ToString(id) \o ".png"
              /\ (CredentialsConfigured /\ loc.imageCID \in CIDs)
                    => image = "ipfs://" \o loc.imageCID
    /\ (pc # "load" /\ ~CredentialsConfigured) =>
          \A i \in startId..id :
              MetadataFileName(i) \in DOMAIN metadataDir =>
                  SubSeq(metadataDir[MetadataFileName(i)].data.image, 1, 7) = "file://"

\* With credentials, a completed identifier whose image CID was resolved.
C6_Witness ==
    /\ CredentialsConfigured
    /\ \E i \in Completed :
          /\ completedBy[i].imageCID \in CIDs
          /\ metadataDir[MetadataFileName(i)].data.image = "ipfs://QmCID"

----------------------------------------------------------------------------
(* C7 *)

\* The identifiers the names of a set of files parse to.
NamedIds(files) ==
    {ParseInt(Replace(f, ".json", "")) : f \in files} \ {NaN}

\* C7 as stated: the resume point is one more than the largest identifier
\* among the names of the .json files, whether or not their content parses.
C7_FilenameOnly ==
    pc # "load" => startId = 1 + MaxOf(NamedIds(JsonFiles(dir0)) \cup {0})

\* C7, amended: the resume point is one more than the largest identifier
\* among the names of the .json files whose content fs.readJson returned; a
\* file whose content cannot be read or parsed does not count, a file that
\* parses but makes the replay of its attributes throw does.
C7_ParsedFilesOnly ==
    pc # "load" =>
        startId = 1 + MaxOf(NamedIds({f \in JsonFiles(dir0) : dir0[f].readable}) \cup {0})

\* 3.json does not parse and 2.json parses but has no attributes: the resume
\* point is 3.
C7_Witness ==
    /\ pc = "loop"
    /\ DOMAIN dir0 = {"2.json", "3.json"}
    /\ ~dir0["3.json"].readable
    /\ dir0["2.json"].readable
    /\ "attributes" \notin DOMAIN dir0["2.json"].data
    /\ startId = 3

----------------------------------------------------------------------------
(* C8 *)

\* C8: metadata.json and rarity.json exist only once id has passed
\* TOTAL_SUPPLY, a report file is never written a second time, and when
\* generate() is done both exist, rarity.json carries totalSupply =
\* TOTAL_SUPPLY and, in a fresh run without failed attempt, metadata.json has
\* exactly the entries with tokenId 1, 2, ..., TOTAL_SUPPLY in that order.
C8_ReportOnceAtEnd ==
    /\ [](DOMAIN rootDir # {} => (id > TOTAL_SUPPLY /\ AfterLoop))
    /\ []("rarity.json" \in DOMAIN rootDir => "metadata.json" \in DOMAIN rootDir)
    /\ [][\A f \in DOMAIN rootDir :
              f \in DOMAIN rootDir' /\ rootDir'[f] = rootDir[f]]_vars
    /\ [](pc = "done" =>
            /\ DOMAIN rootDir = {"metadata.json", "rarity.json"}
            /\ rootDir["rarity.json"].totalSupply = TOTAL_SUPPLY
            /\ rootDir["rarity.json"].traits = rarityCounts
            /\ rootDir["metadata.json"] = allMetadata
            /\ (FreshRun /\ failed = {}) =>
                  /\ Len(rootDir["metadata.json"]) = TOTAL_SUPPLY
                  /\ \A k \in 1..TOTAL_SUPPLY : rootDir["metadata.json"][k].tokenId = k)

\* A fresh run without failed attempt that wrote both reports.
C8_Witness ==
    /\ pc = "done"
    /\ FreshRun
    /\ failed = {}
    /\ Len(rootDir["metadata.json"]) = TOTAL_SUPPLY

----------------------------------------------------------------------------
(* C9 *)

\* C9 as stated: the content of a metadata file never changes once written.
C9_NeverRewritten ==
    [][\A f \in DOMAIN metadataDir :
          f \in DOMAIN metadataDir' /\ metadataDir'[f] = metadataDir[f]]_vars

\* C9, amended: a metadata file is never removed; the file of an identifier
\* the loop has moved past never changes again; the only file whose content
\* changes is <id>.json of the identifier in progress, rewritten by the
\* metadata write of a retry after an attempt of that identifier failed.
C9_RewrittenOnlyByRetry ==
    [][\A f \in DOMAIN metadataDir :
          /\ f \in DOMAIN metadataDir'
          /\ (\E i \in 1..(id - 1) : f = MetadataFileName(i))
                => metadataDir'[f] = metadataDir[f]
          /\ metadataDir'[f] # metadataDir[f] =>
                /\ f = MetadataFileName(id)
                /\ pc = "writeMetadata"
                /\ id \in failed]_vars

\* A retry is about to replace the record a failed attempt left for the
\* identifier in progress by a different one, with an earlier identifier
\* already completed.
C9_Witness ==
    /\ pc = "writeMetadata"
    /\ id \in failed
    /\ MetadataFileName(id) \in DOMAIN metadataDir
    /\ metadataDir[MetadataFileName(id)] # JsonFile(Metadata(id, loc))
    /\ (id - 1) \in Completed

----------------------------------------------------------------------------
(* C10 *)

\* C10: the rarity table is the replay of the records: after loadState(), for
\* every category and trait the count equals the number of records 1..id-1
\* on disk whose attribute for that category has that value.
C10_TableIsReplayOfRecords ==
    pc # "load" =>
        \A c \in DOMAIN traits : \A t \in Range(traits[c]) :
            rarityCounts[c][t]
              = Cardinality({i \in 1..(id - 1) :
                    /\ MetadataFileName(i) \in DOMAIN metadataDir
                    /\ t \in AttributeValues(metadataDir[MetadataFileName(i)].data, c)})

----------------------------------------------------------------------------
(* C11 *)

\* The positions of generate() inside an attempt.
AttemptSteps ==
    {"fetch", "writeImage", "uploadImage", "getImageCID", "writeMetadata",
     "uploadMetadata", "getMetadataCID", "commit"}

\* C11: the identifiers attempted are those from the resume point through
\* TOTAL_SUPPLY, in ascending order and one at a time: an attempt is always
\* for an identifier in startId..TOTAL_SUPPLY, every identifier from startId
\* up to the one in progress has been completed, id moves by single steps,
\* the loop ends when exactly startId..TOTAL_SUPPLY are completed, and with
\* startId > TOTAL_SUPPLY nothing is attempted.
C11_AscendingOneAtATime ==
    /\ [](pc # "load" =>
            /\ Completed = startId..(id - 1)
            /\ failed \subseteq startId..Min(id, TOTAL_SUPPLY)
            /\ pc \in AttemptSteps => (startId <= id /\ id <= TOTAL_SUPPLY)
            /\ AfterLoop => Completed = startId..TOTAL_SUPPLY
            /\ startId > TOTAL_SUPPLY =>
                  /\ pc \notin AttemptSteps
                  /\ id = startId
                  /\ metadataDir = dir0)
    /\ [][pc # "load" => (id' = id \/ id' = id + 1)]_vars

\* A run resumed at the last identifier attempted it twice, completed it and
\* finished.
C11_Witness ==
    /\ pc = "done"
    /\ startId = TOTAL_SUPPLY
    /\ failed = {TOTAL_SUPPLY}
    /\ Completed = {TOTAL_SUPPLY}

----------------------------------------------------------------------------
(* C12 *)

\* C12: whatever the number of failed attempts, the loop offers the next
\* attempt of the identifier in progress; the reports are reached only when
\* every identifier from startId to TOTAL_SUPPLY is completed; and when no
\* throwing step throws for ever, a loop that was entered ends and the
\* report is reached.
C12_NoRetryCap ==
    /\ []((pc = "loop" /\ id <= TOTAL_SUPPLY) => ENABLED SelectTraits)
    /\ [](pc \in {"report", "rarityReport", "done"} =>
            \A i \in startId..TOTAL_SUPPLY : i \in Completed)
    /\ (pc \in {"loop"} \cup AttemptSteps) ~> (pc = "report")

\* The report is reached after each of the identifiers of the run, two at
\* least, failed and was retried.
C12_Witness ==
    /\ pc = "report"
    /\ startId < TOTAL_SUPPLY
    /\ failed = startId..TOTAL_SUPPLY
    /\ Completed = startId..TOTAL_SUPPLY

----------------------------------------------------------------------------
(* C13 *)

\* C13: a CID lookup cannot send the attempt into the catch block, an upload
\* can; an identifier completed without image CID has the image reference
\* file://<id>.png; a failed upload leads back to the top of the loop with the
\* same identifier.
C13_MissingCIDNotFatal ==
    /\ [](pc \in {"getImageCID", "getMetadataCID"} => ~ENABLED Catch)
    /\ [](pc \in {"uploadImage", "uploadMetadata"} =>
            (CredentialsConfigured /\ ENABLED Catch))
    /\ [](\A i \in Completed :
            ~Truthy(completedBy[i].imageCID) =>
                metadataDir[MetadataFileName(i)].data.image
                    = "file://" \o ToString(i) \o ".png")
    /\ [][(pc \in {"uploadImage", "uploadMetadata"} /\ pc' = "loop") =>
              (id' = id /\ id \in failed')]_vars

\* With credentials, an identifier completed at its first attempt although
\* neither CID could be retrieved.
C13_Witness ==
    /\ CredentialsConfigured
    /\ \E i \in Completed \ failed :
          /\ completedBy[i].imageCID = Null
          /\ completedBy[i].metadataCID = Null
          /\ MetadataFileName(i) \in bucket

----------------------------------------------------------------------------
(* C14 *)

\* C14 as stated: a missing CID fails the attempt, so with credentials no
\* attempt goes on to write the metadata without image CID or to complete
\* without metadata CID.
C14_MissingCIDRetried ==
    CredentialsConfigured =>
        /\ pc = "writeMetadata" => Truthy(loc.imageCID)
        /\ pc = "commit" => Truthy(loc.metadataCID)

\* C14, amended: a missing CID is not a failure.  Whatever a CID lookup
\* returns, the attempt goes on to its next step with the same identifier
\* and the same traits; an identifier is marked failed and retried only from
\* the image fetch, a file write or an upload.
C14_MissingCIDContinues ==
    [][/\ pc = "getImageCID" =>
            /\ pc' = "writeMetadata"
            /\ id' = id
            /\ failed' = failed
            /\ loc'.background = loc.background
       /\ pc = "getMetadataCID" =>
            /\ pc' = "commit"
            /\ id' = id
            /\ failed' = failed
       /\ failed' # failed =>
            /\ pc \in {"fetch", "writeImage", "uploadImage", "writeMetadata",
                       "uploadMetadata"}
            /\ failed' = failed \cup {id}
            /\ pc' = "loop"
            /\ id' = id
      ]_vars

\* The image CID lookup returned nothing and the attempt, the first of its
\* identifier, is about to write the metadata.
C14_Witness ==
    /\ pc = "writeMetadata"
    /\ CredentialsConfigured
    /\ loc.imageCID = Null
    /\ id \notin failed

----------------------------------------------------------------------------
(* C15 *)

\* The files of a directory that fs.readJson returns, and the positions of
\* the attribute list of such a file that the forEach of loadState() reaches:
\* those up to the first attribute without trait_type.
ParsedFiles(dir) == {f \in JsonFiles(dir) : dir[f].readable}
ReachedAttributes(data) ==
    IF "attributes" \notin DOMAIN data THEN {}
    ELSE {k \in 1..Len(data.attributes) :
             \A j \in 1..k : "trait_type" \in DOMAIN data.attributes[j]}

\* The attributes of a directory that find the counter of trait t of category
\* c: the derived category name is c and the value is t.
CountedFor(dir, c, t) ==
    {<<f, k>> \in UNION {{<<g, j>> : j \in ReachedAttributes(dir[g].data)} :
                            g \in ParsedFiles(dir)} :
        LET attr == dir[f].data.attributes[k]
        IN  /\ ToLowerCase(attr.trait_type) \o "s" = c
            /\ "value" \in DOMAIN attr
            /\ attr.value = t}

\* C15: after loadState() every count is the number of reached attributes
\* whose derived category and value name that counter, so an attribute of a
\* category or with a value the table does not have changes no count, adds
\* no key, and hides neither the later attributes of its record nor the later
\* files; every parsed record, whatever its attributes, has its entry in
\* allMetadata and keeps the resume point above its identifier.
C15_ForeignAttributeSkipped ==
    pc # "load" =>
        /\ \A c \in DOMAIN InitialRarityCounts :
              \A t \in DOMAIN InitialRarityCounts[c] :
                  rarityCounts[c][t] = Cardinality(CountedFor(dir0, c, t))
        /\ DOMAIN rarityCounts = DOMAIN InitialRarityCounts
        /\ \A c \in DOMAIN rarityCounts :
              DOMAIN rarityCounts[c] = DOMAIN InitialRarityCounts[c]
        /\ Len(allMetadata) = Cardinality(ParsedFiles(dir0))
        /\ \A f \in ParsedFiles(dir0) :
              /\ \E k \in 1..Len(allMetadata) :
                    allMetadata[k] = Spread(dir0[f].data,
                                            [tokenId |-> ParseInt(Replace(f, ".json", "")),
                                             metadataCID |-> ""])
              /\ \A n \in NamedIds({f}) : startId > n

\* The record written under another catalog was listed first, with the
\* highest identifier; its pose, which comes after the two attributes the
\* table does not know, and the traits of the record listed after it were
\* counted.
C15_Witness ==
    /\ pc = "loop"
    /\ Len(allMetadata) = 2
    /\ allMetadata[1].tokenId = 3
    /\ "attributes" \in DOMAIN allMetadata[1]
    /\ Len(allMetadata[1].attributes) = 3
    /\ "trait_type" \in DOMAIN allMetadata[1].attributes[2]
    /\ allMetadata[1].attributes[2].trait_type = "Mood"
    /\ rarityCounts.poses[traits.poses[1]] = 2
    /\ SumOver(rarityCounts.backgrounds, DOMAIN rarityCounts.backgrounds) = 1
    /\ startId = 4

----------------------------------------------------------------------------
(* C16 *)

\* The smallest positive identifier without metadata file in a directory.
FirstMissing(dir) ==
    CHOOSE n \in 1..(Cardinality(DOMAIN dir) + 1) :
        /\ MetadataFileName(n) \notin DOMAIN dir
        /\ \A m \in 1..(n - 1) : MetadataFileName(m) \in DOMAIN dir

\* C16 as stated: on a directory whose .json files all load, with or without
\* gaps in their identifiers, loadState() returns the smallest positive
\* identifier that has no metadata file.
C16_FirstMissing ==
    (pc # "load" /\ ParsedFiles(dir0) = JsonFiles(dir0)) =>
        startId = FirstMissing(dir0)

\* C16, amended: loadState() returns one more than the largest identifier
\* that has a parsed file, so no parsed file has an identifier at or above
\* the resume point and the identifier just below it has one; when all .json
\* files load, the resume point is never below the first missing identifier
\* and equals it exactly when the identifiers on disk have no gap.
C16_OnePastLargest ==
    pc # "load" =>
        LET ids == NamedIds(ParsedFiles(dir0))
        IN  /\ \A n \in ids : n < startId
            /\ startId > 1 => (startId - 1) \in ids
            /\ ParsedFiles(dir0) = JsonFiles(dir0) =>
                  /\ startId >= FirstMissing(dir0)
                  /\ (startId = FirstMissing(dir0)) <=> (ids = 1..(startId - 1))

\* With 1.json and 3.json on disk the resume point is 4 and identifier 2 is
\* the first without file.
C16_Witness ==
    /\ pc = "loop"
    /\ DOMAIN dir0 = {"1.json", "3.json"}
    /\ ParsedFiles(dir0) = JsonFiles(dir0)
    /\ FirstMissing(dir0) = 2
    /\ startId = 4

----------------------------------------------------------------------------
(* C17 *)

\* C17: whenever the process was terminated and started again, every
\* identifier below the resume point of loadState() had an attempt that
\* completed all its steps: its image and its metadata are on disk and, with
\* credentials configured, both were uploaded.
C17_RestartNeverSkips ==
    pc # "load" =>
        \A i \in 1..(startId - 1) :
            /\ ImageFileName(i) \in DOMAIN imageDir
            /\ MetadataFileName(i) \in DOMAIN metadataDir
            /\ CredentialsConfigured =>
                  /\ ImageFileName(i) \in bucket
                  /\ MetadataFileName(i) \in bucket

----------------------------------------------------------------------------
(* C18 *)

\* C18: in a run resumed on the records 1..K, K <= TOTAL_SUPPLY, the manifest
\* written to metadata.json has one entry per identifier 1..TOTAL_SUPPLY in
\* ascending tokenId order, the first K with an empty metadataCID.
C18_ManifestOrdered ==
    (pc = "done" /\ Cardinality(JsonFiles(dir0)) <= TOTAL_SUPPLY) =>
        LET manifest == rootDir["metadata.json"]
        IN  /\ Len(manifest) = TOTAL_SUPPLY
            /\ \A k \in 1..TOTAL_SUPPLY : manifest[k].tokenId = k
            /\ \A k \in 1..Cardinality(JsonFiles(dir0)) : manifest[k].metadataCID = ""

----------------------------------------------------------------------------
(* C19 *)

\* C19: in every state, terminations and restarts included, each <id>.json
\* on disk has its <id>.png, and the image is the one of the prompt of the
\* traits the metadata file records.
C19_ImageMatchesMetadata ==
    \A f \in JsonFiles(metadataDir) :
        /\ ImageFileName(FileId(f)) \in DOMAIN imageDir
        /\ \E l \in AllSamples :
              /\ imageDir[ImageFileName(FileId(f))] = Prompt(l)
              /\ metadataDir[f].data.attributes = Metadata(FileId(f), l).attributes

----------------------------------------------------------------------------
(* C20 *)

\* The files for which loadState() logs no error: the content parses, has an
\* attributes list, and every attribute of the list has a trait_type.
LoadedWithoutError(dir) ==
    {f \in ParsedFiles(dir) :
        /\ "attributes" \in DOMAIN dir[f].data
        /\ ReachedAttributes(dir[f].data) = 1..Len(dir[f].data.attributes)}

\* C20: a file for which loadState() logs an error contributes nothing: the
\* resume point, the entries of allMetadata and the counts are those of the
\* files loaded without error alone.
C20_ErrorFileSkippedWhole ==
    pc # "load" =>
        /\ startId = 1 + MaxOf(NamedIds(LoadedWithoutError(dir0)) \cup {0})
        /\ Len(allMetadata) = Cardinality(LoadedWithoutError(dir0))
        /\ \A c \in DOMAIN InitialRarityCounts :
              \A t \in DOMAIN InitialRarityCounts[c] :
                  rarityCounts[c][t]
                    = Cardinality({p \in CountedFor(dir0, c, t) :
                                      p[1] \in LoadedWithoutError(dir0)})

====
